---- MODULE Spec2Model ----
(***************************************************************************)
(* Model of the study-agent core: the spaced-repetition scheduler and the  *)
(* per-(user, topic) performance metrics (StudyManager), the quiz session  *)
(* and assessment lifecycle (StudyManager), the repository topic sync      *)
(* (GitHubService.sync_repository), concurrent session completions, the    *)
(* Telegram quiz conversation and the SchedulerService with its two jobs.  *)
(*                                                                         *)
(* Conventions                                                             *)
(*  - Python None is the empty tuple; a datetime is <<ticks>>, counted in  *)
(*    ticks of 1/TicksPerDay day; timedelta.days is floor division; a      *)
(*    stored nullable boolean b is <<b>>.                                  *)
(*  - a float score is an exact fraction <<num, den>> in lowest terms.     *)
(*    int(x) for x >= 0 is floor.  Rounding error of IEEE doubles is not   *)
(*    modelled.                                                            *)
(*  - datetime.utcnow() reads the variable now; the clock never goes back. *)
(*    datetime.now() reads now + sched.tz, the server's local time.        *)
(***************************************************************************)
EXTENDS Integers, Sequences, FiniteSets, TLC

VARIABLES now, sessions, assessments, metrics, last,
          topics, nextTopicId, lastSynced, sync, procs, fsm,
          sched, configs, job

vars == <<now, sessions, assessments, metrics, last,
          topics, nextTopicId, lastSynced, sync, procs, fsm,
          sched, configs, job>>

quizVars == <<sessions, assessments>>
syncVars == <<topics, nextTopicId, lastSynced, sync>>
schedVars == <<sched, configs, job>>

(***************************************************************************)
(* Bounds of the model.                                                    *)
(***************************************************************************)
TicksPerDay == 2
MaxTime == 3
MaxSkew == 1
MaxRecorded == 2

Users == {1}
TopicIds == {1}
Pairs == Users \X TopicIds

None == <<>>

(***************************************************************************)
(* Exact fractions.                                                        *)
(***************************************************************************)
RECURSIVE GCD(_, _)
GCD(a, b) == IF b = 0 THEN a ELSE GCD(b, a % b)

Rat(n, d) == IF n = 0 THEN <<0, 1>> ELSE <<n \div GCD(n, d), d \div GCD(n, d)>>
RatAdd(a, b) == Rat(a[1] * b[2] + b[1] * a[2], a[2] * b[2])
RatMulInt(a, k) == Rat(a[1] * k, a[2])
RatDivInt(a, k) == Rat(a[1], a[2] * k)
RatGeq(a, b) == a[1] * b[2] >= b[1] * a[2]
Trunc(a) == a[1] \div a[2]
\* Python round(): to nearest, ties to even
Round(a) ==
    LET f == a[1] \div a[2]
        r2 == 2 * (a[1] % a[2])
    IN  IF r2 < a[2] THEN f
        ELSE IF r2 > a[2] THEN f + 1
        ELSE IF f % 2 = 0 THEN f ELSE f + 1
Max(a, b) == IF a >= b THEN a ELSE b

(***************************************************************************)
(* study_agent.config.constants                                            *)
(***************************************************************************)
INITIAL_INTERVAL_DAYS == 1
EXCELLENT_SCORE_THRESHOLD == <<9, 10>>
GOOD_SCORE_THRESHOLD == <<6, 10>>
EXCELLENT_MULTIPLIER == <<5, 2>>
GOOD_MULTIPLIER == <<3, 2>>

(***************************************************************************)
(* Review scheduler: StudyManager._calculate_next_review and               *)
(* StudyManager._get_last_interval_days.                                   *)
(***************************************************************************)
RatGt(a, b) == a[1] * b[2] > b[1] * a[2]

next_interval_exclusive(score, last_interval_days) ==
    IF RatGt(score, EXCELLENT_SCORE_THRESHOLD)
    THEN Trunc(RatMulInt(EXCELLENT_MULTIPLIER, last_interval_days))
    ELSE IF RatGt(score, GOOD_SCORE_THRESHOLD)
    THEN Trunc(RatMulInt(GOOD_MULTIPLIER, last_interval_days))
    ELSE INITIAL_INTERVAL_DAYS

next_interval(score, last_interval_days) ==
    IF RatGeq(score, EXCELLENT_SCORE_THRESHOLD)
    THEN Trunc(RatMulInt(EXCELLENT_MULTIPLIER, last_interval_days))
    ELSE IF RatGeq(score, GOOD_SCORE_THRESHOLD)
    THEN Trunc(RatMulInt(GOOD_MULTIPLIER, last_interval_days))
    ELSE INITIAL_INTERVAL_DAYS

\* utcnow is the clock value read at the return statement
calculate_next_review(score, last_interval_days, utcnow) ==
    <<utcnow + next_interval(score, last_interval_days) * TicksPerDay>>

get_last_interval_days_unclamped(last_studied, next_review) ==
    IF last_studied # None /\ next_review # None
    THEN Max((next_review[1] - last_studied[1]) \div TicksPerDay, 0)
    ELSE INITIAL_INTERVAL_DAYS

get_last_interval_days(last_studied, next_review) ==
    IF last_studied # None /\ next_review # None
    THEN Max((next_review[1] - last_studied[1]) \div TicksPerDay, INITIAL_INTERVAL_DAYS)
    ELSE INITIAL_INTERVAL_DAYS

(***************************************************************************)
(* Performance metrics: StudyManager._update_performance_metrics.          *)
(***************************************************************************)
NewMetrics ==
    [total_sessions |-> 0, total_correct |-> 0, total_questions |-> 0,
     average_score |-> <<0, 1>>, last_studied_at |-> None, next_review_at |-> None]

correct_increment_rounded(num_questions, score) == Round(RatMulInt(score, num_questions))

correct_increment(num_questions, score) == Trunc(RatMulInt(score, num_questions))

\* the interval handed to _calculate_next_review: last_studied_at has
\* already been overwritten with the clock value t1 when it is derived
fed_last_interval_days(row, t1) ==
    LET m == IF row = None THEN NewMetrics ELSE row
    IN  get_last_interval_days(<<t1>>, m.next_review_at)

updated_metrics_per_question(row, score, num_questions, t1, t2) ==
    LET m == IF row = None THEN NewMetrics ELSE row
        tq == m.total_questions + num_questions
    IN  [total_sessions |-> m.total_sessions + 1,
         total_questions |-> tq,
         total_correct |-> m.total_correct + correct_increment(num_questions, score),
         average_score |->
             IF tq = 0 THEN <<0, 1>>
             ELSE RatDivInt(RatAdd(RatMulInt(m.average_score, m.total_questions),
                                   RatMulInt(score, num_questions)), tq),
         last_studied_at |-> <<t1>>,
         next_review_at |->
             calculate_next_review(score, fed_last_interval_days(row, t1), t2)]

\* the row after the in-memory updates; t1, t2 are the two clock reads
updated_metrics(row, score, num_questions, t1, t2) ==
    LET m == IF row = None THEN NewMetrics ELSE row
        ts == m.total_sessions + 1
    IN  [total_sessions |-> ts,
         total_questions |-> m.total_questions + num_questions,
         total_correct |-> m.total_correct + correct_increment(num_questions, score),
         average_score |->
             RatDivInt(RatAdd(RatMulInt(m.average_score, ts - 1), score), ts),
         last_studied_at |-> <<t1>>,
         next_review_at |->
             calculate_next_review(score, fed_last_interval_days(row, t1), t2)]

update_performance_metrics(user_id, topic_id, score, num_questions, t1, t2) ==
    metrics' = [metrics EXCEPT ![<<user_id, topic_id>>] =
                   updated_metrics(@, score, num_questions, t1, t2)]

(***************************************************************************)
(* Ghost record of the last operation: what was called, on which id, and   *)
(* whether it returned (ok) or raised; for a metrics update also the score,*)
(* the question count, the row before the update, the interval that was    *)
(* handed to the scheduler and the scores recorded for the pair so far     *)
(* (empty when they are not all known); for a query, its result.           *)
(***************************************************************************)
Op(op, id, ok) ==
    [op |-> op, id |-> id, ok |-> ok, pair |-> None, score |-> None, n |-> 0,
     before |-> None, d_prev |-> 0, all_excellent |-> FALSE, scores |-> <<>>,
     result |-> {}]

MetricsOp(op, id, pair, score, n, t1) ==
    [op |-> op, id |-> id, ok |-> TRUE, pair |-> pair, score |-> score, n |-> n,
     before |-> metrics[pair],
     d_prev |-> fed_last_interval_days(metrics[pair], t1),
     all_excellent |->
         /\ RatGeq(score, EXCELLENT_SCORE_THRESHOLD)
         /\ \/ metrics[pair] = None
            \/ last.pair = pair /\ last.all_excellent,
     scores |->
         IF metrics[pair] = None THEN <<score>>
         ELSE IF last.pair = pair THEN Append(last.scores, score)
         ELSE <<>>,
     result |-> {}]

(***************************************************************************)
(* Quiz sessions: StudyManager.create_study_session,                       *)
(* generate_quiz_questions, evaluate_answer, complete_session.             *)
(* A session or assessment id is its index in the table.                   *)
(***************************************************************************)
MaxSessions == 1
MaxCompletions == MaxSessions + 1
QuizMaxTime == 1
MaxQuestions == 2
MaxAssessments == MaxQuestions

Answers == {"a", "b"}
Evaluations ==
    { [score |-> <<1, 1>>, is_correct |-> TRUE, feedback |-> "right"],
      [score |-> <<1, 2>>, is_correct |-> FALSE, feedback |-> "partly"] }

TopicExists(topic_id) == \E t \in topics : t.id = topic_id

NewAssessment(session_id) ==
    [session_id |-> session_id, user_answer |-> None, score |-> None,
     is_correct |-> None, llm_feedback |-> None, answered_at |-> None]

RECURSIVE Repeat(_, _)
Repeat(x, k) == IF k = 0 THEN <<>> ELSE <<x>> \o Repeat(x, k - 1)

RECURSIVE SumScores(_)
SumScores(s) == IF s = <<>> THEN <<0, 1>> ELSE RatAdd(Head(s).score, SumScores(Tail(s)))

IsAnswered(a) == a.score # None
\* rows: the assessments table as the call reads it
AnsweredIn(rows, session_id) ==
    SelectSeq(rows, LAMBDA a : a.session_id = session_id /\ IsAnswered(a))
AnsweredOf(session_id) == AnsweredIn(assessments, session_id)

session_score_over_all(rows, session_id) ==
    LET of_session == SelectSeq(rows, LAMBDA a : a.session_id = session_id)
    IN  IF AnsweredIn(rows, session_id) = <<>> THEN <<0, 1>>
        ELSE RatDivInt(SumScores(AnsweredIn(rows, session_id)), Len(of_session))

\* lines 216-220: the mean over the answered assessments, 0.0 when there is none
session_score_in(rows, session_id) ==
    IF AnsweredIn(rows, session_id) = <<>> THEN <<0, 1>>
    ELSE RatDivInt(SumScores(AnsweredIn(rows, session_id)),
                   Len(AnsweredIn(rows, session_id)))
session_score(session_id) == session_score_in(assessments, session_id)

\* lines 49-86 with a metrics row written for the pair when the session opens
create_study_session_with_metrics(user_id, topic_id) ==
    /\ Len(sessions) < MaxSessions
    /\ sessions' = Append(sessions,
           [user_id |-> user_id, topic_id |-> topic_id,
            status |-> "in_progress", completed_at |-> None])
    /\ metrics' = [metrics EXCEPT ![<<user_id, topic_id>>] =
                       IF @ = None THEN NewMetrics
                       ELSE [@ EXCEPT !.total_sessions = @ + 1]]
    /\ last' = Op("create_study_session", Len(sessions) + 1, TRUE)
    /\ UNCHANGED <<now, assessments, syncVars, procs, fsm, schedVars>>

create_study_session(user_id, topic_id) ==
    /\ Len(sessions) < MaxSessions
    /\ sessions' = Append(sessions,
           [user_id |-> user_id, topic_id |-> topic_id,
            status |-> "in_progress", completed_at |-> None])
    /\ last' = Op("create_study_session", Len(sessions) + 1, TRUE)
    /\ UNCHANGED <<now, assessments, metrics, syncVars, procs, fsm,
                   schedVars>>

\* raises: the question generator raised LLMServiceError; k: the number of
\* question/answer items it returned otherwise
generate_quiz_questions(session_id, raises, k) ==
    /\ session_id \in DOMAIN sessions
    /\ IF ~TopicExists(sessions[session_id].topic_id) \/ raises
       THEN /\ last' = Op("generate_quiz_questions", session_id, FALSE)
            /\ UNCHANGED assessments
       ELSE /\ Len(assessments) + k <= MaxAssessments
            /\ assessments' = assessments \o Repeat(NewAssessment(session_id), k)
            /\ last' = Op("generate_quiz_questions", session_id, TRUE)
    /\ UNCHANGED <<now, sessions, metrics, syncVars, procs, fsm, schedVars>>

\* what the result of GeminiClient.evaluate_answer can lack: the dict is
\* whatever JSON object the grader wrote
MissingKeys == {"none", "score", "is_correct", "feedback"}

committed_assessment_flushed(a, user_answer, evaluation, missing, t) ==
    IF missing = "score" THEN [a EXCEPT !.user_answer = user_answer]
    ELSE IF missing = "is_correct"
    THEN [a EXCEPT !.user_answer = user_answer, !.score = evaluation.score]
    ELSE IF missing = "feedback"
    THEN [a EXCEPT !.user_answer = user_answer, !.score = evaluation.score,
                   !.is_correct = <<evaluation.is_correct>>]
    ELSE [a EXCEPT !.user_answer = user_answer, !.score = evaluation.score,
                   !.is_correct = <<evaluation.is_correct>>,
                   !.llm_feedback = evaluation.feedback, !.answered_at = <<t>>]

\* lines 183-190: the assessment row as the call leaves it in the database.
\* missing: the key the grader's result lacks; evaluation[missing] raises
\* KeyError before the commit of line 190 is reached, and the attributes
\* assigned until then are dropped with the AsyncSession
committed_assessment(a, user_answer, evaluation, missing, t) ==
    IF missing # "none" THEN a
    ELSE [a EXCEPT !.user_answer = user_answer,
                   !.score = evaluation.score,
                   !.is_correct = <<evaluation.is_correct>>,
                   !.llm_feedback = evaluation.feedback,
                   !.answered_at = <<t>>]

\* raises: the grader raised LLMServiceError
evaluate_answer(assessment_id, user_answer, raises, evaluation, missing) ==
    /\ assessment_id \in DOMAIN assessments
    /\ assessments' =
           IF raises THEN assessments
           ELSE [assessments EXCEPT ![assessment_id] =
                    committed_assessment(@, user_answer, evaluation, missing, now)]
    /\ last' = Op("evaluate_answer", assessment_id, ~raises /\ missing = "none")
    /\ UNCHANGED <<now, sessions, metrics, syncVars, procs, fsm, schedVars>>

\* StudySessionRepository.update_status: any status string is stored;
\* completed_at is written only when the caller passes one
SessionStatuses == {"in_progress", "completed", "cancelled"}

update_status(session_id, status, completed_at) ==
    /\ session_id \in DOMAIN sessions
    /\ sessions' = [sessions EXCEPT ![session_id] =
           [@ EXCEPT !.status = status,
                     !.completed_at = IF completed_at # None THEN completed_at ELSE @]]
    /\ last' = Op("update_status", session_id, TRUE)
    /\ UNCHANGED <<now, assessments, metrics, syncVars, procs, fsm,
                   schedVars>>

\* skew: how far the clock moves between the reads of lines 282 and 317
complete_session(session_id, skew) ==
    LET s == sessions[session_id]
        pair == <<s.user_id, s.topic_id>>
        rows == IF metrics[pair] = None THEN 0 ELSE metrics[pair].total_sessions
    IN  /\ session_id \in DOMAIN sessions
        /\ rows < MaxCompletions
        /\ now + skew <= QuizMaxTime
        /\ sessions' = [sessions EXCEPT ![session_id] =
               [@ EXCEPT !.status = "completed", !.completed_at = <<now>>]]
        /\ update_performance_metrics(s.user_id, s.topic_id,
               session_score(session_id), Len(AnsweredOf(session_id)),
               now, now + skew)
        /\ last' = MetricsOp("complete_session", session_id, pair,
               session_score(session_id), Len(AnsweredOf(session_id)), now)
        /\ now' = now + skew
        /\ UNCHANGED <<assessments, syncVars, procs, fsm, schedVars>>

Tick ==
    /\ now < QuizMaxTime
    /\ now' = now + 1
    /\ last' = Op("tick", 0, TRUE)
    /\ UNCHANGED <<sessions, assessments, metrics, syncVars, procs, fsm,
                   schedVars>>

IdleSync == [pc |-> "idle"]

\* the users that have a ScheduleConfig row or metrics rows to scan
SchedUsers == {1, 2}

\* SchedulerService after __init__ (lines 29-37) and its environment:
\* enabled is settings.ENABLE_SCHEDULER, tz what datetime.now() is ahead of
\* datetime.utcnow(), active whether the AsyncIOScheduler runs, jobs the ids
\* handed to add_job; starts and shutdowns count the calls of
\* scheduler.start() and scheduler.shutdown()
IdleSched ==
    [enabled |-> TRUE, tz |-> 0, is_running |-> FALSE, active |-> FALSE,
     jobs |-> {}, starts |-> 0, shutdowns |-> 0]

\* the schedule_configs table: no row
NoConfigs == [u \in SchedUsers |-> None]

\* no run of a scheduler job yet.  pc and queue are the position in the
\* loop over the users; due is the set of (user, topic) the scan's query
\* returned, users the users a delivery is owed to, attempted those
\* bot.send_message was called for, failed those for whom it raised,
\* query_failed whether a query of the run raised, which the outer except
\* logs and which ends the loop, raised whether an exception left the job.
IdleJob ==
    [pc |-> "idle", kind |-> "none", queue |-> <<>>, due |-> {}, users |-> {},
     attempted |-> {}, failed |-> {}, query_failed |-> FALSE, raised |-> FALSE]

\* the conversation's FSMContext: no state set, no data
IdleChat ==
    [state |-> "none", user_id |-> 0, study_session_id |-> 0,
     assessments |-> <<>>, current_question_idx |-> 0]

Init ==
    /\ now = 0
    /\ sessions = <<>>
    /\ assessments = <<>>
    /\ metrics = [p \in Pairs |-> None]
    /\ last = Op("init", 0, TRUE)
    /\ topics \in {{}, {[id |-> 1, repository_id |-> 1, title |-> "t1"]}}
    /\ nextTopicId = 2
    /\ lastSynced = None
    /\ sync = IdleSync
    /\ procs = <<>>
    /\ fsm = IdleChat
    /\ sched = IdleSched
    /\ configs = NoConfigs
    /\ job = IdleJob

Next ==
    \/ \E u \in Users, t \in TopicIds : create_study_session(u, t)
    \/ \E sid \in 1..MaxSessions, raises \in BOOLEAN, k \in 0..MaxQuestions :
           generate_quiz_questions(sid, raises, k)
    \/ \E aid \in 1..MaxAssessments, ans \in Answers, raises \in BOOLEAN,
          ev \in Evaluations, missing \in MissingKeys :
           evaluate_answer(aid, ans, raises, ev, missing)
    \/ \E sid \in 1..MaxSessions, skew \in 0..MaxSkew : complete_session(sid, skew)
    \/ \E sid \in 1..MaxSessions, status \in SessionStatuses,
          completed_at \in {None, <<now>>} : update_status(sid, status, completed_at)
    \/ Tick

Spec == Init /\ [][Next]_vars

\* the operations that write the assessments table, without the completions
NextAssess ==
    \/ \E u \in Users, t \in TopicIds : create_study_session(u, t)
    \/ \E sid \in 1..MaxSessions, raises \in BOOLEAN, k \in 0..MaxQuestions :
           generate_quiz_questions(sid, raises, k)
    \/ \E aid \in 1..MaxAssessments, ans \in Answers, raises \in BOOLEAN,
          ev \in Evaluations, missing \in MissingKeys :
           evaluate_answer(aid, ans, raises, ev, missing)
    \/ Tick

SpecAssess == Init /\ [][NextAssess]_vars

\* one quiz after its questions were generated: the answers are evaluated
\* in any order, any number of them, and the session is completed
InitGrade ==
    /\ now = 0
    /\ sessions = <<[user_id |-> 1, topic_id |-> 1,
                     status |-> "in_progress", completed_at |-> None]>>
    /\ assessments = Repeat(NewAssessment(1), MaxQuestions)
    /\ metrics = [p \in Pairs |-> None]
    /\ last = Op("generate_quiz_questions", 1, TRUE)
    /\ topics = {[id |-> 1, repository_id |-> 1, title |-> "t1"]}
    /\ nextTopicId = 2
    /\ lastSynced = None
    /\ sync = IdleSync
    /\ procs = <<>>
    /\ fsm = IdleChat
    /\ sched = IdleSched
    /\ configs = NoConfigs
    /\ job = IdleJob

\* the text of the answer, the way an evaluation fails and the clock moving
\* inside complete_session do not reach the session's score: one answer
\* text, one kind of failure, no skew
NextGrade ==
    \/ \E aid \in 1..MaxAssessments, raises \in BOOLEAN, ev \in Evaluations :
           evaluate_answer(aid, "a", raises, ev, "none")
    \/ complete_session(1, 0)
    \/ Tick

SpecGrade == InitGrade /\ [][NextGrade]_vars

\* the life of a quiz through the StudyManager: opened, its questions
\* generated, answers evaluated in any order, completed or left open; one
\* answer text, one kind of failure, all at one reading of the clock
NextQuiz ==
    \/ \E u \in Users, t \in TopicIds : create_study_session(u, t)
    \/ \E sid \in 1..MaxSessions, raises \in BOOLEAN, k \in 0..MaxQuestions :
           generate_quiz_questions(sid, raises, k)
    \/ \E aid \in 1..MaxAssessments, raises \in BOOLEAN, ev \in Evaluations :
           evaluate_answer(aid, "a", raises, ev, "none")
    \/ \E sid \in 1..MaxSessions : complete_session(sid, 0)

SpecQuiz == Init /\ [][NextQuiz]_vars

(***************************************************************************)
(* The metrics of one (user, topic) pair under a sequence of recorded      *)
(* sessions: _update_performance_metrics called with the score and the     *)
(* question count complete_session hands it.  A score s over n >= 1        *)
(* questions is what n answers all graded s give; n = 0 goes with s = 0.   *)
(***************************************************************************)
SessionScores == {<<0, 1>>, <<3, 5>>, <<4, 5>>, <<9, 10>>}
QuestionCounts == {0, 3, 5}

RecordSession(pair, score, num_questions, skew) ==
    /\ (IF metrics[pair] = None THEN 0 ELSE metrics[pair].total_sessions) < MaxRecorded
    /\ num_questions = 0 => score = <<0, 1>>
    /\ now + skew <= MaxTime
    /\ update_performance_metrics(pair[1], pair[2], score, num_questions, now, now + skew)
    /\ last' = MetricsOp("update_performance_metrics", 0, pair, score, num_questions, now)
    /\ now' = now + skew
    /\ UNCHANGED <<sessions, assessments, syncVars, procs, fsm, schedVars>>

MetricsTick ==
    /\ now < MaxTime
    /\ now' = now + 1
    /\ last' = [last EXCEPT !.op = "tick"]
    /\ UNCHANGED <<sessions, assessments, metrics, syncVars, procs, fsm,
                   schedVars>>

NextMetrics ==
    \/ \E pair \in Pairs, score \in SessionScores, n \in QuestionCounts,
          skew \in 0..MaxSkew : RecordSession(pair, score, n, skew)
    \/ MetricsTick

SpecMetrics == Init /\ [][NextMetrics]_vars

(***************************************************************************)
(* Topic sync: GitHubService.sync_repository for repository SyncRepo, one  *)
(* step per awaited call.  The record sync holds the position of the call: *)
(*   pc         idle, fetch, delete, create, update, done or failed        *)
(*   todo       files still to fetch for each remaining proposed topic     *)
(*   idx        position of the current proposed topic in llm_topics       *)
(*   sections   sections collected for the current proposed topic          *)
(*   built      titles of the topics built so far (the list topics)        *)
(*   created    topics_created                                             *)
(*   pre        ghost: the repository's topics when the call started       *)
(*   pre_synced ghost: last_synced_at when the call started                *)
(*   failed_in  ghost: the call whose exception made sync raise            *)
(*   skipped    ghost: files skipped after RepositoryNotFoundError         *)
(*   storage_fault  ghost: the delete failed because the storage failed    *)
(*   good       ghost: the proposed topics one of whose fetched files had  *)
(*              at least MIN_TOPIC_LENGTH_WORDS words                      *)
(***************************************************************************)
MaxTopics == 2
MaxFiles == 2
MaxTopicId == 4
MIN_TOPIC_LENGTH_WORDS == 50
SyncRepo == 1

RepoTopics(repository_id) == {t \in topics : t.repository_id = repository_id}
TitleOf(idx) == IF idx = 1 THEN "A" ELSE IF idx = 2 THEN "B" ELSE "C"

\* what GitHubClient.get_file_content does for one path: it returns a text
\* of some number of words, or raises
FetchOutcomes ==
    { [raises |-> "none", words |-> MIN_TOPIC_LENGTH_WORDS],
      [raises |-> "none", words |-> MIN_TOPIC_LENGTH_WORDS - 1],
      [raises |-> "RepositoryNotFoundError", words |-> 0],
      [raises |-> "RepositoryAccessError", words |-> 0] }

\* what get_repository_contents and the README fetch do
EnumOutcomes == {"raises", "no_readme", "readme_fetched", "readme_raises"}

\* llm_topics as the number of files each proposed topic names
Proposals ==
    UNION {[1..k -> 0..MaxFiles] : k \in 0..MaxTopics}

SyncFailed(s, where) == [s EXCEPT !.pc = "failed", !.failed_in = where]

\* lines 88-114: leave the inner loop of every proposed topic that has no
\* file left, appending it to topics when it has a section, then go on to
\* the delete when no proposed topic is left
RECURSIVE close_topics(_)
close_topics(s) ==
    IF s.todo = <<>> THEN [s EXCEPT !.pc = "delete"]
    ELSE IF Head(s.todo) > 0 THEN s
    ELSE close_topics([s EXCEPT
             !.todo = Tail(@),
             !.idx = @ + 1,
             !.sections = 0,
             !.built = IF s.sections > 0 THEN Append(@, TitleOf(s.idx)) ELSE @])

\* lines 54-86 with the delete of line 117 moved before the collaborator calls
sync_repository_start_delete_first(enum, extracted, proposal) ==
    LET s0 == [pc |-> "fetch", todo |-> proposal, idx |-> 1, sections |-> 0,
               built |-> <<>>, created |-> 0, pre |-> RepoTopics(SyncRepo),
               pre_synced |-> lastSynced, failed_in |-> "", skipped |-> 0,
               good |-> {}, storage_fault |-> FALSE]
    IN  /\ sync.pc \in {"idle", "done", "failed"}
        /\ nextTopicId + MaxTopics <= MaxTopicId + 1
        /\ sync' = IF enum = "raises" THEN SyncFailed(s0, "get_repository_contents")
                   ELSE IF enum = "readme_raises" THEN SyncFailed(s0, "readme")
                   ELSE IF ~extracted THEN SyncFailed(s0, "get_repository_topics")
                   ELSE close_topics(s0)
        /\ topics' = topics \ RepoTopics(SyncRepo)
        /\ UNCHANGED <<now, sessions, assessments, metrics, last,
                       nextTopicId, lastSynced, procs, fsm, schedVars>>

\* lines 54-86: repository lookup, enumeration, README fetch, topic extraction.
\* extracted = FALSE: get_repository_topics caught its own exception and
\* returned None, which the for loop of line 88 cannot iterate
sync_repository_start(enum, extracted, proposal) ==
    LET s0 == [pc |-> "fetch", todo |-> proposal, idx |-> 1, sections |-> 0,
               built |-> <<>>, created |-> 0, pre |-> RepoTopics(SyncRepo),
               pre_synced |-> lastSynced, failed_in |-> "", skipped |-> 0,
               good |-> {}, storage_fault |-> FALSE]
    IN  /\ sync.pc \in {"idle", "done", "failed"}
        /\ nextTopicId + MaxTopics <= MaxTopicId + 1
        /\ sync' = IF enum = "raises" THEN SyncFailed(s0, "get_repository_contents")
                   ELSE IF enum = "readme_raises" THEN SyncFailed(s0, "readme")
                   ELSE IF ~extracted THEN SyncFailed(s0, "get_repository_topics")
                   ELSE close_topics(s0)
        /\ UNCHANGED <<now, sessions, assessments, metrics, last,
                       topics, nextTopicId, lastSynced, procs, fsm,
                   schedVars>>

\* line 97 with a file of any length taken as a section
long_enough_any(words) == words >= 0

\* line 97: count_words(file_content) >= MIN_TOPIC_LENGTH_WORDS
long_enough(words) == words >= MIN_TOPIC_LENGTH_WORDS

\* lines 90-105: one get_file_content of the inner loop
sync_fetch_file(outcome) ==
    LET fetched == [sync EXCEPT !.todo = <<Head(@) - 1>> \o Tail(@)]
    IN  /\ sync.pc = "fetch"
        /\ sync' =
             IF outcome.raises = "RepositoryNotFoundError"
             THEN close_topics([fetched EXCEPT !.skipped = @ + 1])
             ELSE IF outcome.raises # "none"
             THEN SyncFailed(sync, "get_file_content")
             ELSE IF long_enough(outcome.words)
             THEN close_topics([fetched EXCEPT
                      !.sections = @ + 1,
                      !.good = IF outcome.words >= MIN_TOPIC_LENGTH_WORDS
                               THEN @ \cup {sync.idx} ELSE @])
             ELSE close_topics(fetched)
        /\ UNCHANGED <<now, sessions, assessments, metrics, last,
                       topics, nextTopicId, lastSynced, procs, fsm,
                   schedVars>>

\* models.py:77-78, 97, 137: the rows of study_sessions and
\* performance_metrics whose topic_id is the topic's id, which the
\* relationships study_sessions and performance_metrics of TopicModel load
topic_is_referenced(topic_id) ==
    \/ \E i \in DOMAIN sessions : sessions[i].topic_id = topic_id
    \/ \E p \in DOMAIN metrics : metrics[p] # None /\ p[2] = topic_id

\* line 117, TopicRepository.delete_by_repository: session.delete() of each
\* topic, then one commit.  The relationships of TopicModel to its sessions
\* and metrics have no delete cascade and no passive_deletes, so the flush
\* of the delete sets topic_id of every such row to NULL; both columns are
\* NOT NULL, the UPDATE raises IntegrityError and nothing is deleted.
\* fails: the storage failed
delete_by_repository(fails) ==
    /\ sync.pc = "delete"
    /\ IF fails \/ \E t \in RepoTopics(SyncRepo) : topic_is_referenced(t.id)
       THEN /\ sync' = [SyncFailed(sync, "delete_by_repository") EXCEPT
                           !.storage_fault = fails]
            /\ UNCHANGED topics
       ELSE /\ topics' = topics \ RepoTopics(SyncRepo)
            /\ sync' = [sync EXCEPT !.pc = IF sync.built = <<>> THEN "update" ELSE "create"]
    /\ UNCHANGED <<now, sessions, assessments, metrics, last,
                   nextTopicId, lastSynced, procs, fsm, schedVars>>

\* lines 121-129, TopicRepository.create: each topic is committed on its own
create_topic(fails) ==
    /\ sync.pc = "create"
    /\ IF fails
       THEN /\ sync' = SyncFailed(sync, "create")
            /\ UNCHANGED <<topics, nextTopicId>>
       ELSE /\ topics' = topics \cup
                   {[id |-> nextTopicId, repository_id |-> SyncRepo,
                     title |-> Head(sync.built)]}
            /\ nextTopicId' = nextTopicId + 1
            /\ sync' = [sync EXCEPT !.built = Tail(@), !.created = @ + 1,
                                    !.pc = IF Tail(sync.built) = <<>>
                                           THEN "update" ELSE "create"]
    /\ UNCHANGED <<now, sessions, assessments, metrics, last, lastSynced, procs, fsm,
                   schedVars>>

\* line 132, RepositoryRepository.update_last_synced, then the return
update_last_synced(fails) ==
    /\ sync.pc = "update"
    /\ IF fails
       THEN /\ sync' = SyncFailed(sync, "update_last_synced")
            /\ UNCHANGED lastSynced
       ELSE /\ lastSynced' = <<now>>
            /\ sync' = [sync EXCEPT !.pc = "done"]
    /\ UNCHANGED <<now, sessions, assessments, metrics, last,
                   topics, nextTopicId, procs, fsm, schedVars>>

NextSync ==
    \/ \E enum \in EnumOutcomes, extracted \in BOOLEAN, proposal \in Proposals :
           sync_repository_start(enum, extracted, proposal)
    \/ \E outcome \in FetchOutcomes : sync_fetch_file(outcome)
    \/ \E fails \in BOOLEAN : delete_by_repository(fails)
    \/ \E fails \in BOOLEAN : create_topic(fails)
    \/ \E fails \in BOOLEAN : update_last_synced(fails)

SpecSync == Init /\ [][NextSync]_vars

(***************************************************************************)
(* Two completions of sessions of the same (user, topic), each in its own  *)
(* database session (AsyncSessionLocal()), one step per group of awaited   *)
(* calls of complete_session.  Process p completes session p.  What a      *)
(* process has read or changed in memory is in procs[p]; the tables hold   *)
(* what is committed.  The flush of line 291 writes the values computed in *)
(* memory: an UPDATE by primary key for a row that was read, an INSERT for *)
(* a row that was not, which the constraint uq_user_topic_metrics rejects  *)
(* when the pair has a row by then.                                        *)
(***************************************************************************)
Procs == {1, 2}
ConcPair == <<1, 1>>

AnsweredWith(session_id, ev) ==
    [session_id |-> session_id, user_answer |-> "a", score |-> ev.score,
     is_correct |-> <<ev.is_correct>>, llm_feedback |-> ev.feedback, answered_at |-> <<0>>]

InitConc ==
    /\ now = 0
    /\ sessions = [p \in Procs |->
           [user_id |-> ConcPair[1], topic_id |-> ConcPair[2],
            status |-> "in_progress", completed_at |-> None]]
    /\ \E e1 \in Evaluations, e2 \in Evaluations :
           assessments = <<AnsweredWith(1, e1), AnsweredWith(2, e2)>>
    /\ metrics \in {[p \in Pairs |-> None],
                    [p \in Pairs |-> updated_metrics(None, <<1, 1>>, 1, 0, 0)]}
    /\ last = [Op("init", 0, TRUE) EXCEPT !.before = metrics[ConcPair]]
    /\ topics = {[id |-> 1, repository_id |-> 1, title |-> "t1"]}
    /\ nextTopicId = 2
    /\ lastSynced = None
    /\ sync = IdleSync
    /\ procs = [p \in Procs |-> [pc |-> "start", score |-> None, n |-> 0, row |-> None,
                                 inserted |-> FALSE, completed_at |-> None]]
    /\ fsm = IdleChat
    /\ sched = IdleSched
    /\ configs = NoConfigs
    /\ job = IdleJob

\* lines 206-224: load the session and its assessments, compute the score,
\* set status and completed_at in memory
conc_load_session(p) ==
    /\ procs[p].pc = "start"
    /\ procs' = [procs EXCEPT ![p] =
           [@ EXCEPT !.pc = "loaded", !.score = session_score(p),
                     !.n = Len(AnsweredOf(p)), !.completed_at = <<now>>]]
    /\ UNCHANGED <<now, sessions, assessments, metrics, last, syncVars, fsm,
                   schedVars>>

\* lines 256-289: SELECT the metrics row, then update it in memory
conc_read_metrics(p, skew) ==
    /\ procs[p].pc = "loaded"
    /\ now + skew <= QuizMaxTime
    /\ procs' = [procs EXCEPT ![p] =
           [@ EXCEPT !.pc = "updated",
                     !.inserted = (metrics[ConcPair] = None),
                     !.row = updated_metrics(metrics[ConcPair], procs[p].score,
                                             procs[p].n, now, now + skew)]]
    /\ now' = now + skew
    /\ UNCHANGED <<sessions, assessments, metrics, last, syncVars, fsm,
                   schedVars>>

\* line 291: commit
conc_commit(p) ==
    /\ procs[p].pc = "updated"
    /\ IF procs[p].inserted /\ metrics[ConcPair] # None
       THEN /\ procs' = [procs EXCEPT ![p] = [@ EXCEPT !.pc = "failed"]]
            /\ UNCHANGED <<sessions, metrics>>
       ELSE /\ metrics' = [metrics EXCEPT ![ConcPair] = procs[p].row]
            /\ sessions' = [sessions EXCEPT ![p] =
                   [@ EXCEPT !.status = "completed",
                             !.completed_at = procs[p].completed_at]]
            /\ procs' = [procs EXCEPT ![p] = [@ EXCEPT !.pc = "done"]]
    /\ UNCHANGED <<now, assessments, last, syncVars, fsm, schedVars>>

ConcTick ==
    /\ now < QuizMaxTime
    /\ now' = now + 1
    /\ UNCHANGED <<sessions, assessments, metrics, last, syncVars, procs, fsm,
                   schedVars>>

NextConc ==
    \/ \E p \in Procs : conc_load_session(p)
    \/ \E p \in Procs, skew \in 0..MaxSkew : conc_read_metrics(p, skew)
    \/ \E p \in Procs : conc_commit(p)
    \/ ConcTick

SpecConc == InitConc /\ [][NextConc]_vars

(***************************************************************************)
(* One Telegram conversation running the /study flow: the handlers         *)
(* cmd_study, process_topic_selection, process_answer and cmd_cancel, one  *)
(* step per handler call, with the calls each makes on StudyManager in     *)
(* the order of the handler.  fsm is the conversation's FSMContext: its    *)
(* state and the data the handlers keep in it (the titles and counters     *)
(* kept only for the messages are left out).  state.update_data merges,    *)
(* state.clear drops state and data.                                       *)
(***************************************************************************)
\* topic ids a keyboard button can carry; 2 is a button of a topic that is
\* no longer stored
ButtonTopicIds == {1, 2}

\* /study: handlers of commands are matched before the state handlers, so
\* the command is accepted in every state
cmd_study(user_id) ==
    /\ topics # {}
    /\ fsm' = [fsm EXCEPT !.state = "selecting_topic", !.user_id = user_id]
    /\ last' = Op("cmd_study", 0, TRUE)
    /\ UNCHANGED <<now, sessions, assessments, metrics, syncVars, procs,
                   schedVars>>

\* raises, k: what the question generator does, as in generate_quiz_questions
process_topic_selection(topic_id, raises, k) ==
    LET sid == Len(sessions) + 1
        ids == [j \in 1..k |-> Len(assessments) + j]
    IN  /\ fsm.state = "selecting_topic"
        /\ IF ~TopicExists(topic_id)
           THEN /\ fsm' = IdleChat
                /\ last' = Op("process_topic_selection", 0, FALSE)
                /\ UNCHANGED <<sessions, assessments>>
           ELSE /\ Len(sessions) < MaxSessions
                /\ sessions' = Append(sessions,
                       [user_id |-> fsm.user_id, topic_id |-> topic_id,
                        status |-> "in_progress", completed_at |-> None])
                /\ IF raises
                   THEN /\ fsm' = IdleChat
                        /\ last' = Op("process_topic_selection", sid, FALSE)
                        /\ UNCHANGED assessments
                   ELSE /\ Len(assessments) + k <= MaxAssessments
                        /\ assessments' = assessments \o Repeat(NewAssessment(sid), k)
                        /\ fsm' = IF k = 0 THEN IdleChat
                                  ELSE [fsm EXCEPT !.state = "answering_question",
                                                   !.study_session_id = sid,
                                                   !.assessments = ids,
                                                   !.current_question_idx = 0]
                        /\ last' = Op("process_topic_selection", sid, k > 0)
        /\ UNCHANGED <<now, metrics, syncVars, procs, schedVars>>

\* raises, evaluation, missing: what the grader does, as in evaluate_answer;
\* skew: as in complete_session
process_answer(user_answer, raises, evaluation, missing, skew) ==
    LET aid == fsm.assessments[fsm.current_question_idx + 1]
        sid == fsm.study_session_id
        s == sessions[sid]
        next_idx == fsm.current_question_idx + 1
        graded == [assessments EXCEPT ![aid] =
                      committed_assessment(@, user_answer, evaluation, missing, now)]
        score == session_score_in(graded, sid)
        n == Len(AnsweredIn(graded, sid))
    IN  /\ fsm.state = "answering_question"
        /\ IF raises \/ missing # "none"
           THEN /\ last' = Op("process_answer", aid, FALSE)
                /\ UNCHANGED <<now, sessions, assessments, metrics, fsm>>
           ELSE /\ assessments' = graded
                /\ IF next_idx < Len(fsm.assessments)
                   THEN /\ fsm' = [fsm EXCEPT !.current_question_idx = next_idx]
                        /\ last' = Op("process_answer", aid, TRUE)
                        /\ UNCHANGED <<now, sessions, metrics>>
                   ELSE /\ now + skew <= QuizMaxTime
                        /\ sessions' = [sessions EXCEPT ![sid] =
                               [@ EXCEPT !.status = "completed", !.completed_at = <<now>>]]
                        /\ update_performance_metrics(s.user_id, s.topic_id,
                               score, n, now, now + skew)
                        /\ last' = MetricsOp("process_answer", sid, <<s.user_id, s.topic_id>>,
                               score, n, now)
                        /\ now' = now + skew
                        /\ fsm' = IdleChat
        /\ UNCHANGED <<syncVars, procs, schedVars>>

\* /cancel
cmd_cancel ==
    /\ IF fsm.state = "none"
       THEN /\ last' = Op("cmd_cancel", 0, FALSE)
            /\ UNCHANGED fsm
       ELSE /\ fsm' = IdleChat
            /\ last' = Op("cmd_cancel", fsm.study_session_id, TRUE)
    /\ UNCHANGED <<now, sessions, assessments, metrics, syncVars, procs,
                   schedVars>>

NextChat ==
    \/ \E u \in Users : cmd_study(u)
    \/ \E t \in ButtonTopicIds, raises \in BOOLEAN, k \in 0..MaxQuestions :
           process_topic_selection(t, raises, k)
    \/ \E ans \in Answers, raises \in BOOLEAN, ev \in Evaluations,
          missing \in MissingKeys, skew \in 0..MaxSkew :
           process_answer(ans, raises, ev, missing, skew)
    \/ cmd_cancel
    \/ Tick

SpecChat == Init /\ [][NextChat]_vars

(***************************************************************************)
(* The due-topic query, StudyManager.get_topics_for_review, over a metrics *)
(* table of several users and topics.  A pair has no row, a row that was   *)
(* never scheduled (PerformanceMetricsRepository.create leaves both        *)
(* timestamps null) or a row scheduled at some time.  The SELECT has no    *)
(* ORDER BY: the returned list is modelled as the set of its elements,     *)
(* which the constraint uq_user_topic_metrics keeps free of duplicates.    *)
(***************************************************************************)
ReviewUsers == {1, 2}
ReviewTopics == {1, 2}

ReviewRows ==
    {None, NewMetrics}
        \cup {[NewMetrics EXCEPT !.total_sessions = 1, !.last_studied_at = <<0>>,
                                 !.next_review_at = <<t>>] : t \in 0..MaxTime}

sql_le_nulls_due(a, b) == a = None \/ a[1] <= b[1]

\* column <= value in a WHERE clause: not true when the column is NULL
sql_le(a, b) == a # None /\ a[1] <= b[1]

due_topic_ids(user_id, current_time) ==
    {p[2] : p \in {q \in DOMAIN metrics :
                       /\ metrics[q] # None
                       /\ q[1] = user_id
                       /\ sql_le(metrics[q].next_review_at, <<current_time>>)}}

get_topics_for_review(user_id) ==
    /\ last' = [Op("get_topics_for_review", user_id, TRUE) EXCEPT
                   !.result = due_topic_ids(user_id, now)]
    /\ UNCHANGED <<now, sessions, assessments, metrics, syncVars, procs, fsm,
                   schedVars>>

InitReview ==
    /\ now = 0
    /\ sessions = <<>>
    /\ assessments = <<>>
    /\ metrics \in [ReviewUsers \X ReviewTopics -> ReviewRows]
    /\ last = Op("init", 0, TRUE)
    /\ topics = {}
    /\ nextTopicId = 1
    /\ lastSynced = None
    /\ sync = IdleSync
    /\ procs = <<>>
    /\ fsm = IdleChat
    /\ sched = IdleSched
    /\ configs = NoConfigs
    /\ job = IdleJob

ReviewTick ==
    /\ now < MaxTime
    /\ now' = now + 1
    /\ last' = Op("tick", 0, TRUE)
    /\ UNCHANGED <<sessions, assessments, metrics, syncVars, procs, fsm,
                   schedVars>>

NextReview ==
    \/ \E u \in ReviewUsers : get_topics_for_review(u)
    \/ ReviewTick

SpecReview == InitReview /\ [][NextReview]_vars

(***************************************************************************)
(* Claims.                                                                 *)
(***************************************************************************)
(* SchedulerService.start and stop.                                        *)
(***************************************************************************)
MaxCalls == 30

\* lines 39-67 without the test of _is_running
start_again ==
    /\ sched.enabled => sched.starts < MaxCalls
    /\ IF ~sched.enabled
       THEN /\ UNCHANGED sched
            /\ last' = Op("start", 0, FALSE)
       ELSE /\ sched' = [sched EXCEPT
                   !.jobs = @ \cup {"check_scheduled_reviews", "check_topics_for_review"},
                   !.active = TRUE,
                   !.starts = @ + 1,
                   !.is_running = TRUE]
            /\ last' = Op("start", 0, TRUE)
    /\ UNCHANGED <<now, sessions, assessments, metrics, syncVars, procs, fsm,
                   configs, job>>

\* lines 39-67: nothing when the scheduler is disabled or already running;
\* add_job replaces a job of the same id
start ==
    /\ (sched.enabled /\ ~sched.is_running) => sched.starts < MaxCalls
    /\ IF ~sched.enabled \/ sched.is_running
       THEN /\ UNCHANGED sched
            /\ last' = Op("start", 0, FALSE)
       ELSE /\ sched' = [sched EXCEPT
                   !.jobs = @ \cup {"check_scheduled_reviews", "check_topics_for_review"},
                   !.active = TRUE,
                   !.starts = @ + 1,
                   !.is_running = TRUE]
            /\ last' = Op("start", 0, TRUE)
    /\ UNCHANGED <<now, sessions, assessments, metrics, syncVars, procs, fsm,
                   configs, job>>

\* lines 69-74
stop ==
    /\ IF sched.is_running
       THEN /\ sched' = [sched EXCEPT !.active = FALSE,
                                      !.shutdowns = @ + 1,
                                      !.is_running = FALSE]
            /\ last' = Op("stop", 0, TRUE)
       ELSE /\ UNCHANGED sched
            /\ last' = Op("stop", 0, FALSE)
    /\ UNCHANGED <<now, sessions, assessments, metrics, syncVars, procs, fsm,
                   configs, job>>

InitLife ==
    /\ now = 0
    /\ sessions = <<>>
    /\ assessments = <<>>
    /\ metrics = [p \in Pairs |-> None]
    /\ last = Op("init", 0, TRUE)
    /\ topics = {}
    /\ nextTopicId = 1
    /\ lastSynced = None
    /\ sync = IdleSync
    /\ procs = <<>>
    /\ fsm = IdleChat
    /\ sched \in {[IdleSched EXCEPT !.enabled = e] : e \in BOOLEAN}
    /\ configs = NoConfigs
    /\ job = IdleJob

NextLife ==
    \/ start
    \/ stop

SpecLife == InitLife /\ [][NextLife]_vars

(***************************************************************************)
(* The scheduler's jobs: the due-topic scan and the scheduled-review check *)
(* (SchedulerService._check_topics_for_review, _check_scheduled_reviews).  *)
(* In the specifications of the jobs a tick of the clock is half an hour.  *)
(***************************************************************************)
HoursPerDay == 2
DaysPerWeek == 2
SlotsPerDay == 2 * HoursPerDay
WeekSlots == SlotsPerDay * DaysPerWeek

\* strftime("%H:%M") and strftime("%A") of a time
HourMinute(t) == <<(t % SlotsPerDay) \div 2, ((t % SlotsPerDay) % 2) * 30>>
DayOfWeek(t) == (t \div SlotsPerDay) % DaysPerWeek

\* datetime.now(): the local time of the server
local_now == now + sched.tz

\* the service after a start() that found the scheduler enabled
StartedSched ==
    [IdleSched EXCEPT !.is_running = TRUE, !.active = TRUE, !.starts = 1,
                      !.jobs = {"check_scheduled_reviews", "check_topics_for_review"}]

\* the rows come in the order of their ids
RECURSIVE in_order(_)
in_order(S) ==
    IF S = {} THEN <<>>
    ELSE LET m == CHOOSE x \in S : \A y \in S : x <= y
         IN  <<m>> \o in_order(S \ {m})

\* lines 119-124: the metrics rows whose next_review_at is not null and not
\* after current_time
due_rows(current_time) ==
    {p \in DOMAIN metrics :
         /\ metrics[p] # None
         /\ sql_le(metrics[p].next_review_at, <<current_time>>)}

\* lines 85-91: the configs that are enabled with preferred_time = hm
matching_configs(hm) ==
    {u \in DOMAIN configs :
         /\ configs[u] # None
         /\ configs[u].is_enabled
         /\ configs[u].preferred_time = hm}

\* lines 95-99: the day test of the loop; an empty days_of_week is every day
day_listed(config, day) ==
    config.days_of_week = {} \/ day \in config.days_of_week

\* what the lookup of one user and the delivery to it can do
DeliveryOutcomes == {"sent", "send_raises", "lookup_raises"}

\* the end of a run once no user is left
job_end(j) == IF j.queue = <<>> THEN [j EXCEPT !.pc = "idle"] ELSE j

\* bot.send_message with its exception leaving _send_review_reminder
after_delivery_propagating(j, user, outcome) ==
    IF outcome = "lookup_raises"
    THEN [j EXCEPT !.pc = "idle", !.queue = <<>>, !.query_failed = TRUE]
    ELSE IF outcome = "send_raises"
    THEN [j EXCEPT !.pc = "idle", !.queue = <<>>,
                   !.attempted = @ \cup {user}, !.failed = @ \cup {user}]
    ELSE job_end([j EXCEPT !.queue = Tail(@), !.attempted = @ \cup {user}])

\* lines 136-142 and 168-211 (102-107 and 147-166): the lookup of the user,
\* which the outer except catches, ending the loop, and the delivery, whose
\* exception is caught and logged inside the _send_ method
after_delivery(j, user, outcome) ==
    IF outcome = "lookup_raises"
    THEN [j EXCEPT !.pc = "idle", !.queue = <<>>, !.query_failed = TRUE]
    ELSE job_end([j EXCEPT
             !.queue = Tail(@),
             !.attempted = @ \cup {user},
             !.failed = IF outcome = "send_raises" THEN @ \cup {user} ELSE @])

\* lines 112-133: the query of the scan and the grouping by user;
\* query_raises: the query raised, which the outer except logs
check_topics_for_review(query_raises) ==
    LET due == due_rows(local_now)
        users == {p[1] : p \in due}
        run == [IdleJob EXCEPT !.kind = "check_topics_for_review"]
    IN  /\ sched.active
        /\ job.pc = "idle"
        /\ job' = IF query_raises THEN [run EXCEPT !.query_failed = TRUE]
                  ELSE job_end([run EXCEPT !.pc = "loop", !.due = due,
                                           !.users = users,
                                           !.queue = in_order(users)])
        /\ last' = Op("check_topics_for_review", 0, ~query_raises)
        /\ UNCHANGED <<now, sessions, assessments, metrics, syncVars, procs, fsm,
                       sched, configs>>

\* lines 135-142: one turn of the loop over the users
send_review_reminder(outcome) ==
    /\ job.pc = "loop"
    /\ job.kind = "check_topics_for_review"
    /\ job' = after_delivery(job, Head(job.queue), outcome)
    /\ last' = Op("send_review_reminder", Head(job.queue), outcome = "sent")
    /\ UNCHANGED <<now, sessions, assessments, metrics, syncVars, procs, fsm,
                   sched, configs>>

\* lines 76-91: the check runs at minute 0 of the hour (line 51) and selects
\* by the local HH:MM
check_scheduled_reviews(query_raises) ==
    LET selected == matching_configs(HourMinute(local_now))
        run == [IdleJob EXCEPT !.kind = "check_scheduled_reviews"]
    IN  /\ sched.active
        /\ HourMinute(now)[2] = 0
        /\ job.pc = "idle"
        /\ job' = IF query_raises THEN [run EXCEPT !.query_failed = TRUE]
                  ELSE job_end([run EXCEPT
                           !.pc = "loop",
                           !.users = {u \in selected :
                                         day_listed(configs[u], DayOfWeek(local_now))},
                           !.queue = in_order(selected)])
        /\ last' = Op("check_scheduled_reviews", 0, ~query_raises)
        /\ UNCHANGED <<now, sessions, assessments, metrics, syncVars, procs, fsm,
                       sched, configs>>

\* lines 93-107: one turn of the loop over the configs
send_study_reminder(outcome) ==
    LET user == Head(job.queue)
    IN  /\ job.pc = "loop"
        /\ job.kind = "check_scheduled_reviews"
        /\ job' = IF day_listed(configs[user], DayOfWeek(local_now))
                  THEN after_delivery(job, user, outcome)
                  ELSE job_end([job EXCEPT !.queue = Tail(@)])
        /\ last' = Op("send_study_reminder", user, outcome = "sent")
        /\ UNCHANGED <<now, sessions, assessments, metrics, syncVars, procs, fsm,
                       sched, configs>>

\* metrics rows of the scan: none, due from the start, due at the end
ScanRows ==
    {None} \cup {[NewMetrics EXCEPT !.total_sessions = 1, !.last_studied_at = <<0>>,
                                    !.next_review_at = <<t>>] : t \in {0, MaxTime}}

\* schedule configs of the scan: none, enabled for 00:00 or 01:00 of every
\* day, disabled
ScanConfigs ==
    {None}
        \cup {[is_enabled |-> TRUE, preferred_time |-> <<h, 0>>, days_of_week |-> {}] :
                  h \in {0, 1}}
        \cup {[is_enabled |-> FALSE, preferred_time |-> <<0, 0>>, days_of_week |-> {}]}

InitScan ==
    /\ now = 0
    /\ sessions = <<>>
    /\ assessments = <<>>
    /\ metrics \in [SchedUsers \X {1} -> ScanRows]
    /\ last = Op("init", 0, TRUE)
    /\ topics = {}
    /\ nextTopicId = 1
    /\ lastSynced = None
    /\ sync = IdleSync
    /\ procs = <<>>
    /\ fsm = IdleChat
    /\ sched = StartedSched
    /\ configs \in [SchedUsers -> ScanConfigs]
    /\ job = IdleJob

\* the clock moves between two runs
ScanTick ==
    /\ now < MaxTime
    /\ job.pc = "idle"
    /\ now' = now + 1
    /\ last' = Op("tick", 0, TRUE)
    /\ UNCHANGED <<sessions, assessments, metrics, syncVars, procs, fsm, schedVars>>

NextScan ==
    \/ \E query_raises \in BOOLEAN : check_topics_for_review(query_raises)
    \/ \E outcome \in DeliveryOutcomes : send_review_reminder(outcome)
    \/ \E query_raises \in BOOLEAN : check_scheduled_reviews(query_raises)
    \/ \E outcome \in DeliveryOutcomes : send_study_reminder(outcome)
    \/ ScanTick

SpecScan == InitScan /\ [][NextScan]_vars

(***************************************************************************)
(* Completions, the due-topic query and the due-topic scan together.  The  *)
(* rows are written with datetime.utcnow() (study_manager.py:282, 317),    *)
(* the query of the StudyManager compares them with datetime.utcnow()      *)
(* (line 347), the scan with datetime.now() (scheduler_service.py:114).    *)
(* A tick is 1/TicksPerDay day here.                                       *)
(***************************************************************************)
MaxTz == 1

\* what the local time of a server can be ahead of UTC, in ticks
TzOffsets == (0 - MaxTz)..MaxTz

InitDue ==
    /\ now = 0
    /\ sessions = <<>>
    /\ assessments = <<>>
    /\ metrics = [p \in Pairs |-> None]
    /\ last = Op("init", 0, TRUE)
    /\ topics = {[id |-> 1, repository_id |-> 1, title |-> "t1"]}
    /\ nextTopicId = 2
    /\ lastSynced = None
    /\ sync = IdleSync
    /\ procs = <<>>
    /\ fsm = IdleChat
    /\ sched \in {[StartedSched EXCEPT !.tz = z] : z \in TzOffsets}
    /\ configs = NoConfigs
    /\ job = IdleJob

NextDue ==
    \/ \E pair \in Pairs, score \in SessionScores, n \in QuestionCounts,
          skew \in 0..MaxSkew : RecordSession(pair, score, n, skew)
    \/ \E u \in Users : get_topics_for_review(u)
    \/ check_topics_for_review(FALSE)
    \/ send_review_reminder("sent")
    \/ MetricsTick

SpecDue == InitDue /\ [][NextDue]_vars

(***************************************************************************)
(* The scheduled-review check over the weeks: the clock goes round the     *)
(* week in half hours, the cron trigger of line 51 runs the check once in  *)
(* every half hour that starts an hour, users set and disable their        *)
(* schedule at any time.                                                   *)
(***************************************************************************)
PreferredTimes == {<<0, 0>>, <<0, 30>>}
DaySets == {{}, {1}}

\* lines 213-245
schedule_user_study(user_id, preferred_time, days_of_week) ==
    /\ configs' = [configs EXCEPT ![user_id] =
                       [is_enabled |-> TRUE, preferred_time |-> preferred_time,
                        days_of_week |-> days_of_week]]
    /\ last' = Op("schedule_user_study", user_id, TRUE)
    /\ UNCHANGED <<now, sessions, assessments, metrics, syncVars, procs, fsm,
                   sched, job>>

\* lines 247-261
disable_user_schedule(user_id) ==
    /\ configs' = [configs EXCEPT ![user_id] =
                       IF @ = None THEN @ ELSE [@ EXCEPT !.is_enabled = FALSE]]
    /\ last' = Op("disable_user_schedule", user_id, configs[user_id] # None)
    /\ UNCHANGED <<now, sessions, assessments, metrics, syncVars, procs, fsm,
                   sched, job>>

\* CronTrigger(minute=0): the run of this half hour, when it starts an hour
hourly_check ==
    /\ job.kind = "none"
    /\ check_scheduled_reviews(FALSE)

\* the next half hour begins, after the run that was due in this one
RemindTick ==
    /\ job.pc = "idle"
    /\ HourMinute(now)[2] = 0 => job.kind = "check_scheduled_reviews"
    /\ now' = (now + 1) % WeekSlots
    /\ job' = IdleJob
    /\ last' = Op("tick", 0, TRUE)
    /\ UNCHANGED <<sessions, assessments, metrics, syncVars, procs, fsm,
                   sched, configs>>

InitRemind ==
    /\ now = 0
    /\ sessions = <<>>
    /\ assessments = <<>>
    /\ metrics = [p \in Pairs |-> None]
    /\ last = Op("init", 0, TRUE)
    /\ topics = {}
    /\ nextTopicId = 1
    /\ lastSynced = None
    /\ sync = IdleSync
    /\ procs = <<>>
    /\ fsm = IdleChat
    /\ sched = StartedSched
    /\ configs = NoConfigs
    /\ job = IdleJob

NextRemind ==
    \/ \E u \in SchedUsers, pt \in PreferredTimes, days \in DaySets :
           schedule_user_study(u, pt, days)
    \/ \E u \in SchedUsers : disable_user_schedule(u)
    \/ hourly_check
    \/ \E outcome \in {"sent", "send_raises"} : send_study_reminder(outcome)
    \/ RemindTick

SpecRemind == InitRemind /\ [][NextRemind]_vars

\* time passes, the started scheduler runs its job when it is due, and a
\* run goes through its loop
SpecRemindFair ==
    /\ SpecRemind
    /\ WF_vars(RemindTick)
    /\ WF_vars(hourly_check)
    /\ WF_vars(\E outcome \in {"sent", "send_raises"} : send_study_reminder(outcome))

(***************************************************************************)
(* A sync of a repository whose topic has been studied: session and        *)
(* metrics rows refer to it.                                               *)
(***************************************************************************)
InitOrphan ==
    /\ now = 0
    /\ sessions \in {<<>>, <<[user_id |-> 1, topic_id |-> 1,
                               status |-> "completed", completed_at |-> <<0>>]>>}
    /\ assessments = <<>>
    /\ metrics \in [Pairs -> ScanRows]
    /\ last = Op("init", 0, TRUE)
    /\ topics = {[id |-> 1, repository_id |-> SyncRepo, title |-> "A"]}
    /\ nextTopicId = 2
    /\ lastSynced = None
    /\ sync = IdleSync
    /\ procs = <<>>
    /\ fsm = IdleChat
    /\ sched = IdleSched
    /\ configs = NoConfigs
    /\ job = IdleJob

NextOrphan ==
    \/ \E enum \in EnumOutcomes, extracted \in BOOLEAN, proposal \in Proposals :
           sync_repository_start(enum, extracted, proposal)
    \/ \E outcome \in FetchOutcomes : sync_fetch_file(outcome)
    \/ \E fails \in BOOLEAN : delete_by_repository(fails)
    \/ \E fails \in BOOLEAN : create_topic(fails)
    \/ \E fails \in BOOLEAN : update_last_synced(fails)
    \/ \E u \in Users : get_topics_for_review(u)
    \/ ReviewTick

SpecOrphan == InitOrphan /\ [][NextOrphan]_vars

(***************************************************************************)
(* The answer messages of one quiz handled as concurrent tasks: the        *)
(* dispatcher starts a process_answer for every message that arrives while *)
(* the state is answering_question, and a handler gives way to the others  *)
(* at each await.  procs holds the handlers: pc, the current_question_idx  *)
(* and the assessment id read from the FSM data, and as ghosts whether the *)
(* handler's evaluate_answer returned and whether it called                *)
(* complete_session.                                                       *)
(***************************************************************************)
MaxMessages == 3

\* lines 554-563: state.get_data() and the assessment of the current index
answer_read ==
    /\ fsm.state = "answering_question"
    /\ Len(procs) < MaxMessages
    /\ procs' = Append(procs,
           [pc |-> "read", idx |-> fsm.current_question_idx,
            aid |-> fsm.assessments[fsm.current_question_idx + 1],
            list |-> fsm.assessments, sid |-> fsm.study_session_id,
            evaluated |-> FALSE, completed |-> FALSE])
    /\ last' = Op("answer_read", Len(procs) + 1, TRUE)
    /\ UNCHANGED <<now, sessions, assessments, metrics, syncVars, fsm, schedVars>>

\* lines 593-596: study_manager.evaluate_answer; when it raises, the except
\* of lines 674-679 answers with an error and leaves the FSM as it is
answer_evaluate(h, raises, evaluation) ==
    /\ h \in DOMAIN procs
    /\ procs[h].pc = "read"
    /\ IF raises
       THEN /\ procs' = [procs EXCEPT ![h] = [@ EXCEPT !.pc = "failed"]]
            /\ UNCHANGED assessments
       ELSE /\ assessments' = [assessments EXCEPT ![procs[h].aid] =
                   committed_assessment(@, "a", evaluation, "none", now)]
            /\ procs' = [procs EXCEPT ![h] =
                   [@ EXCEPT !.pc = "evaluated", !.evaluated = TRUE]]
    /\ last' = Op("answer_evaluate", h, ~raises)
    /\ UNCHANGED <<now, sessions, metrics, syncVars, fsm, schedVars>>

\* lines 623-672: the next index is written to the FSM data, or after the
\* last question complete_session is called and the state cleared
answer_advance(h) ==
    LET next_idx == procs[h].idx + 1
        sid == procs[h].sid
        s == sessions[sid]
    IN  /\ h \in DOMAIN procs
        /\ procs[h].pc = "evaluated"
        /\ IF next_idx < Len(procs[h].list)
           THEN /\ fsm' = [fsm EXCEPT !.current_question_idx = next_idx]
                /\ procs' = [procs EXCEPT ![h] = [@ EXCEPT !.pc = "done"]]
                /\ UNCHANGED <<sessions, metrics>>
           ELSE /\ sessions' = [sessions EXCEPT ![sid] =
                       [@ EXCEPT !.status = "completed", !.completed_at = <<now>>]]
                /\ update_performance_metrics(s.user_id, s.topic_id,
                       session_score(sid), Len(AnsweredOf(sid)), now, now)
                /\ fsm' = IdleChat
                /\ procs' = [procs EXCEPT ![h] =
                       [@ EXCEPT !.pc = "done", !.completed = TRUE]]
        /\ last' = Op("answer_advance", h, TRUE)
        /\ UNCHANGED <<now, assessments, syncVars, schedVars>>

\* the state after process_topic_selection has generated MaxQuestions
\* questions and asked the first (lines 515-523)
InitAnswers ==
    /\ now = 0
    /\ sessions = <<[user_id |-> 1, topic_id |-> 1,
                     status |-> "in_progress", completed_at |-> None]>>
    /\ assessments = Repeat(NewAssessment(1), MaxQuestions)
    /\ metrics = [p \in Pairs |-> None]
    /\ last = Op("process_topic_selection", 1, TRUE)
    /\ topics = {[id |-> 1, repository_id |-> 1, title |-> "t1"]}
    /\ nextTopicId = 2
    /\ lastSynced = None
    /\ sync = IdleSync
    /\ procs = <<>>
    /\ fsm = [state |-> "answering_question", user_id |-> 1, study_session_id |-> 1,
              assessments |-> [i \in 1..MaxQuestions |-> i],
              current_question_idx |-> 0]
    /\ sched = IdleSched
    /\ configs = NoConfigs
    /\ job = IdleJob

NextAnswers ==
    \/ answer_read
    \/ \E h \in 1..MaxMessages, raises \in BOOLEAN, ev \in Evaluations :
           answer_evaluate(h, raises, ev)
    \/ \E h \in 1..MaxMessages : answer_advance(h)

SpecAnswers == InitAnswers /\ [][NextAnswers]_vars

(***************************************************************************)
IsMetricsUpdate == last.op \in {"update_performance_metrics", "complete_session"}
RowBefore == IF last.before = None THEN NewMetrics ELSE last.before
RowAfter == metrics[last.pair]
IntervalDays(row) == (row.next_review_at[1] - row.last_studied_at[1]) \div TicksPerDay

\* C1: complete_session on a session that already has status 'completed'
\* leaves every PerformanceMetrics row as it was.
C1_SecondCompleteKeepsMetrics ==
    [][(last'.op = "complete_session" /\ sessions[last'.id].status = "completed")
           => metrics' = metrics]_vars

\* C2: evaluate_answer on an assessment whose score is already set is
\* rejected with an error and leaves the assessment as the first evaluation
\* wrote it.
C2_GradedAtMostOnce ==
    [][(last'.op = "evaluate_answer" /\ assessments[last'.id].score # None)
           => (~last'.ok /\ assessments' = assessments)]_vars

\* C3: evaluate_answer on an assessment whose session is 'completed' raises,
\* writes nothing to the assessment and leaves the metrics unchanged.
C3_NoAnswerAfterCompletion ==
    [][(/\ last'.op = "evaluate_answer"
        /\ sessions[assessments[last'.id].session_id].status = "completed")
           => (~last'.ok /\ assessments' = assessments /\ metrics' = metrics)]_vars

\* C4: the previous interval handed to the scheduler is
\* max(INITIAL_INTERVAL_DAYS, whole days between the next_review_at and the
\* last_studied_at stored in the row before the update), and
\* INITIAL_INTERVAL_DAYS when there is no row or a timestamp is null; a first
\* excellent session is scheduled floor(INITIAL_INTERVAL_DAYS *
\* EXCELLENT_MULTIPLIER) days ahead.
StoredIntervalDays(row) ==
    IF row = None \/ row.last_studied_at = None \/ row.next_review_at = None
    THEN INITIAL_INTERVAL_DAYS
    ELSE Max(INITIAL_INTERVAL_DAYS, IntervalDays(row))

C4_PrevIntervalFromStoredRow ==
    IsMetricsUpdate =>
        /\ last.d_prev = StoredIntervalDays(last.before)
        /\ (last.before = None /\ RatGeq(last.score, EXCELLENT_SCORE_THRESHOLD))
               => IntervalDays(RowAfter)
                      = Trunc(RatMulInt(EXCELLENT_MULTIPLIER, INITIAL_INTERVAL_DAYS))

\* C5: over a run of sessions on one pair all scored at least
\* EXCELLENT_SCORE_THRESHOLD, whenever they are completed, the stored review
\* interval in days never shrinks and is at least
\* floor(previous interval * EXCELLENT_MULTIPLIER).
C5_ExcellentIntervalsGrow ==
    (IsMetricsUpdate /\ last.all_excellent /\ last.before # None) =>
        /\ IntervalDays(RowAfter) >= IntervalDays(last.before)
        /\ IntervalDays(RowAfter)
               >= Trunc(RatMulInt(EXCELLENT_MULTIPLIER, IntervalDays(last.before)))

\* C6 as amended: a recorded session with score s over n questions adds 1 to
\* total_sessions, n to total_questions and int(n * s), the product cut to
\* its integer part, to total_correct.
C6_CountersTruncate ==
    IsMetricsUpdate =>
        /\ RowAfter.total_sessions = RowBefore.total_sessions + 1
        /\ RowAfter.total_questions = RowBefore.total_questions + last.n
        /\ RowAfter.total_correct
               = RowBefore.total_correct + (last.n * last.score[1]) \div last.score[2]

\* C6 as stated: total_correct grows by round(n * s).
C6_CountersRound ==
    IsMetricsUpdate =>
        /\ RowAfter.total_sessions = RowBefore.total_sessions + 1
        /\ RowAfter.total_questions = RowBefore.total_questions + last.n
        /\ RowAfter.total_correct
               = RowBefore.total_correct + Round(<<last.n * last.score[1], last.score[2]>>)

\* sessions (0.8, 5 questions) then (0.6, 3 questions) on a fresh row
C6_Witness ==
    /\ last.op = "update_performance_metrics"
    /\ last.score = <<3, 5>> /\ last.n = 3
    /\ last.before # None
    /\ last.before.total_sessions = 1 /\ last.before.total_questions = 5
    /\ last.before.average_score = <<4, 5>>
    /\ RowAfter.total_sessions = 2 /\ RowAfter.total_questions = 8
    /\ RowAfter.total_correct = 5

\* C7: after generate_quiz_questions has failed for a session, that session
\* is not left in status 'in_progress' with zero assessments.
C7_NoEmptySessionAfterFailedGeneration ==
    (last.op = "generate_quiz_questions" /\ ~last.ok) =>
        ~(/\ sessions[last.id].status = "in_progress"
          /\ \A i \in DOMAIN assessments : assessments[i].session_id # last.id)

\* C8: when a storage operation of the delete-then-insert phase fails
\* (delete_by_repository, a topic create or update_last_synced), the
\* repository is left with exactly the topics it had before the sync.
C8_FailedSyncKeepsTopics ==
    (/\ sync.pc = "failed"
     /\ sync.failed_in \in {"delete_by_repository", "create", "update_last_synced"})
        => RepoTopics(SyncRepo) = sync.pre

\* C9: sync_repository never raises because the fetch of a file named by a
\* proposed topic failed; such a file is only skipped.
C9_FileFetchFailureNotFatal ==
    ~(sync.pc = "failed" /\ sync.failed_in = "get_file_content")

\* C10: when two completions for the same (user, topic) have both ended,
\* both have succeeded and the row holds both updates: total_sessions has
\* grown by 2, total_questions by n1 + n2, total_correct by both increments.
C10_ConcurrentCompletionsSerialize ==
    (\A p \in Procs : procs[p].pc \in {"done", "failed"}) =>
        LET base == IF last.before = None THEN NewMetrics ELSE last.before
            row == metrics[ConcPair]
        IN  /\ \A p \in Procs : procs[p].pc = "done"
            /\ row.total_sessions = base.total_sessions + 2
            /\ row.total_questions = base.total_questions + procs[1].n + procs[2].n
            /\ row.total_correct = base.total_correct
                   + correct_increment(procs[1].n, procs[1].score)
                   + correct_increment(procs[2].n, procs[2].score)

\* C11: generate_quiz_questions never returns successfully without having
\* created an assessment: it fails when the question generator raises and
\* when it returns zero items.
C11_NoEmptyQuizOnSuccess ==
    [][(last'.op = "generate_quiz_questions" /\ last'.ok)
           => Len(assessments') > Len(assessments)]_vars

\* C12: create_study_session for a topic_id that has no topic fails and
\* creates no session; otherwise it creates exactly one session, 'in_progress',
\* with completed_at null and no assessment.
C12_CreateNeedsTopic ==
    [][last'.op = "create_study_session" =>
          IF \E u \in Users, t \in TopicIds :
                 /\ ~TopicExists(t)
                 /\ sessions' = Append(sessions, [user_id |-> u, topic_id |-> t,
                        status |-> "in_progress", completed_at |-> None])
          THEN FALSE
          ELSE /\ Len(sessions') = Len(sessions) + 1
               /\ sessions'[Len(sessions')].status = "in_progress"
               /\ sessions'[Len(sessions')].completed_at = None
               /\ \A i \in DOMAIN assessments' :
                      assessments'[i].session_id # Len(sessions')]_vars

\* C14: a session that has reached 'completed' or 'cancelled' never changes
\* status again.
C14_TerminalStatusIsFinal ==
    [][\A i \in DOMAIN sessions :
           sessions[i].status \in {"completed", "cancelled"}
               => sessions'[i].status = sessions[i].status]_vars

\* C15: a 'completed' session has completed_at set, and completed_at, once
\* set, never changes.
C15_CompletedAtSetOnce ==
    [][\A i \in DOMAIN sessions' :
           /\ sessions'[i].status = "completed" => sessions'[i].completed_at # None
           /\ (i \in DOMAIN sessions /\ sessions[i].completed_at # None)
                  => sessions'[i].completed_at = sessions[i].completed_at]_vars

C13_CancelMarksSessionCancelled ==
    [][(last'.op = "cmd_cancel" /\ fsm.state = "answering_question")
           => sessions'[fsm.study_session_id].status = "cancelled"]_vars

\* C17: a metrics row with next_review_at set has last_studied_at set, and
\* next_review_at is at least INITIAL_INTERVAL_DAYS days after it.
C17_ReviewAfterStudy ==
    \A p \in Pairs :
        (metrics[p] # None /\ metrics[p].next_review_at # None) =>
            /\ metrics[p].last_studied_at # None
            /\ metrics[p].next_review_at[1] >= metrics[p].last_studied_at[1]
            /\ metrics[p].next_review_at[1] - metrics[p].last_studied_at[1]
                   >= INITIAL_INTERVAL_DAYS * TicksPerDay

\* a low score on a row that was scheduled further ahead, recorded while the
\* clock moved between the two reads
C17_Witness ==
    /\ last.op = "update_performance_metrics"
    /\ last.before # None
    /\ IntervalDays(last.before) > INITIAL_INTERVAL_DAYS
    /\ ~RatGeq(last.score, GOOD_SCORE_THRESHOLD)
    /\ RowAfter.next_review_at[1] - RowAfter.last_studied_at[1]
           > INITIAL_INTERVAL_DAYS * TicksPerDay

\* C18: the row is rescheduled, from the clock value of the return, by
\* floor(d_prev * EXCELLENT_MULTIPLIER) days when the score is at least
\* EXCELLENT_SCORE_THRESHOLD, else by floor(d_prev * GOOD_MULTIPLIER) days
\* when it is at least GOOD_SCORE_THRESHOLD, else by INITIAL_INTERVAL_DAYS
\* days; d_prev is the interval handed to the scheduler.
TierDays(score, d_prev) ==
    IF score[1] * EXCELLENT_SCORE_THRESHOLD[2] >= EXCELLENT_SCORE_THRESHOLD[1] * score[2]
    THEN (d_prev * EXCELLENT_MULTIPLIER[1]) \div EXCELLENT_MULTIPLIER[2]
    ELSE IF score[1] * GOOD_SCORE_THRESHOLD[2] >= GOOD_SCORE_THRESHOLD[1] * score[2]
    THEN (d_prev * GOOD_MULTIPLIER[1]) \div GOOD_MULTIPLIER[2]
    ELSE INITIAL_INTERVAL_DAYS

C18_ThreeTierInterval ==
    last.op = "update_performance_metrics" =>
        RowAfter.next_review_at = <<now + TierDays(last.score, last.d_prev) * TicksPerDay>>

\* a score equal to GOOD_SCORE_THRESHOLD on a previous interval of two days
\* or more
C18_Witness ==
    /\ last.op = "update_performance_metrics"
    /\ RatGeq(last.score, GOOD_SCORE_THRESHOLD) /\ RatGeq(GOOD_SCORE_THRESHOLD, last.score)
    /\ last.d_prev >= 2
    /\ RowAfter.next_review_at[1] > now + INITIAL_INTERVAL_DAYS * TicksPerDay

\* C19: after k recorded sessions average_score is the sum of the k session
\* scores divided by k, whatever the question counts.
RECURSIVE ScoreSum(_)
ScoreSum(scores) ==
    IF scores = <<>> THEN <<0, 1>>
    ELSE LET h == Head(scores)
             t == ScoreSum(Tail(scores))
         IN  <<h[1] * t[2] + t[1] * h[2], h[2] * t[2]>>

C19_AverageIsMeanOfSessions ==
    (IsMetricsUpdate /\ Len(last.scores) = RowAfter.total_sessions) =>
        RowAfter.average_score[1] * ScoreSum(last.scores)[2] * Len(last.scores)
            = ScoreSum(last.scores)[1] * RowAfter.average_score[2]

\* 0.8 over 5 questions, then 0.6 over 3 questions: 0.7
C19_Witness ==
    /\ last.op = "update_performance_metrics"
    /\ last.scores = << <<4, 5>>, <<3, 5>> >>
    /\ last.n = 3 /\ RowAfter.total_questions = 8
    /\ RowAfter.average_score = <<7, 10>>

\* C20: get_topics_for_review(user_id) returns exactly the topics whose row
\* for that user has next_review_at set and not later than the current time,
\* and changes no row.
C20_DueTopicsExact ==
    [][last'.op = "get_topics_for_review" =>
          /\ metrics' = metrics
          /\ \A t \in ReviewTopics :
                 t \in last'.result <=>
                     /\ metrics[<<last'.id, t>>] # None
                     /\ metrics[<<last'.id, t>>].next_review_at # None
                     /\ metrics[<<last'.id, t>>].next_review_at[1] <= now
          /\ last'.result \subseteq ReviewTopics]_vars

\* the query returns one topic while the user's other row is unscheduled or
\* scheduled later and another user has a due row for that other topic
C20_Witness ==
    /\ last.op = "get_topics_for_review"
    /\ \E t \in ReviewTopics, o \in ReviewTopics, u \in ReviewUsers :
           /\ last.result = {t}
           /\ o # t /\ u # last.id
           /\ metrics[<<last.id, o>>] # None
           /\ metrics[<<u, o>>] # None
           /\ metrics[<<u, o>>].next_review_at # None
           /\ metrics[<<u, o>>].next_review_at[1] <= now
           /\ metrics[<<last.id, t>>].next_review_at[1] = now

\* C21: complete_session returns and records the mean of the scores of the
\* session's answered assessments and their number; unanswered assessments
\* count in neither, the mean is 0 when none is answered, and the order of
\* the answers does not matter.
RECURSIVE GradedScores(_, _)
GradedScores(session_id, i) ==
    IF i > Len(assessments) THEN <<>>
    ELSE IF assessments[i].session_id = session_id /\ assessments[i].answered_at # None
    THEN <<assessments[i].score>> \o GradedScores(session_id, i + 1)
    ELSE GradedScores(session_id, i + 1)

C21_SessionScoreIsMeanOfAnswered ==
    last.op = "complete_session" =>
        LET graded == GradedScores(last.id, 1)
            total == ScoreSum(graded)
        IN  /\ last.n = Len(graded)
            /\ RowAfter.total_questions = RowBefore.total_questions + Len(graded)
            /\ IF graded = <<>> THEN last.score = <<0, 1>>
               ELSE last.score[1] * total[2] * Len(graded) = total[1] * last.score[2]

\* the second question was answered and the first was not; the session's
\* score is the score of that one answer
C21_Witness ==
    /\ last.op = "complete_session"
    /\ assessments[1].score = None
    /\ assessments[2].score = <<1, 2>>
    /\ last.score = <<1, 2>> /\ last.n = 1

\* C22: after a successful sync the repository's stored topics are exactly
\* the newly built ones: one per proposed topic that had a fetched file of at
\* least MIN_TOPIC_LENGTH_WORDS words, none of the topics stored before the
\* sync, and the returned count is the number of topics now stored.
C22_SyncReplacesTopics ==
    sync.pc = "done" =>
        /\ {t.title : t \in RepoTopics(SyncRepo)} = {TitleOf(i) : i \in sync.good}
        /\ Cardinality(RepoTopics(SyncRepo)) = Cardinality(sync.good)
        /\ RepoTopics(SyncRepo) \cap sync.pre = {}
        /\ sync.created = Cardinality(RepoTopics(SyncRepo))

C22_Witness ==
    /\ sync.pc = "done"
    /\ sync.pre # {}
    /\ sync.good = {2}
    /\ sync.created = 1

\* C23: the stored topics are deleted only after every collaborator call has
\* returned: while files are still being fetched, and after a sync that
\* failed in the enumeration, the README fetch, the topic extraction or a
\* per-file fetch, the repository's topics and last_synced_at are exactly
\* what they were before the call.
C23_CollaboratorFailureLeavesTopics ==
    (\/ sync.pc = "fetch"
     \/ /\ sync.pc = "failed"
        /\ sync.failed_in \in {"get_repository_contents", "readme",
                                "get_repository_topics", "get_file_content"})
        => /\ RepoTopics(SyncRepo) = sync.pre
           /\ lastSynced = sync.pre_synced

C23_Witness ==
    /\ sync.pc = "failed"
    /\ sync.failed_in = "get_file_content"
    /\ sync.idx = 2
    /\ sync.pre # {}
    /\ RepoTopics(SyncRepo) = sync.pre
    /\ lastSynced # None

\* C25: create_study_session, generate_quiz_questions and evaluate_answer
\* leave every metrics row as it is, only complete_session changes one, and
\* a pair all of whose sessions are still 'in_progress' has no metrics row,
\* however many of their questions were answered.
C25_OnlyCompletionWritesMetrics ==
    /\ [](\A p \in Pairs :
             (\A i \in DOMAIN sessions :
                  <<sessions[i].user_id, sessions[i].topic_id>> = p
                      => sessions[i].status = "in_progress")
                 => metrics[p] = None)
    /\ [][/\ last'.op \in {"create_study_session", "generate_quiz_questions",
                           "evaluate_answer"} => metrics' = metrics
          /\ metrics' # metrics => last'.op = "complete_session"]_vars

\* a session left 'in_progress' with every question answered
C25_Witness ==
    /\ last.op = "evaluate_answer" /\ last.ok
    /\ sessions[1].status = "in_progress"
    /\ Len(assessments) = MaxQuestions
    /\ \A i \in DOMAIN assessments : assessments[i].score # None
    /\ metrics[<<1, 1>>] = None

\* C27: _is_running is false at first, becomes true only by a start() with
\* ENABLE_SCHEDULER true and is false after every stop(); scheduler.start()
\* is called only by a start() issued while not running and enabled, a
\* start() while running or disabled changes nothing, scheduler.shutdown()
\* is called only by a stop() issued while running.
C27_SchedulerLifecycle ==
    /\ ~sched.is_running
    /\ [][/\ (~sched.is_running /\ sched'.is_running)
                 => (last'.op = "start" /\ sched.enabled)
          /\ (sched.is_running /\ ~sched'.is_running) => last'.op = "stop"
          /\ last'.op = "stop" => ~sched'.is_running
          /\ sched'.starts # sched.starts
                 => /\ last'.op = "start"
                    /\ ~sched.is_running /\ sched.enabled
                    /\ sched'.starts = sched.starts + 1
          /\ (last'.op = "start" /\ (sched.is_running \/ ~sched.enabled))
                 => sched' = sched
          /\ sched'.shutdowns # sched.shutdowns
                 => /\ last'.op = "stop"
                    /\ sched.is_running
                    /\ sched'.shutdowns = sched.shutdowns + 1
          /\ sched'.active = sched'.is_running]_vars

\* a start() issued while running, after a stop and a restart
C27_Witness ==
    /\ last.op = "start" /\ ~last.ok
    /\ sched.is_running
    /\ sched.starts = 2
    /\ sched.shutdowns = 1

\* C24: in a run of the due-topic scan or of the scheduled-review check a
\* delivery that raises does not stop the run: unless a query of the run
\* raised, every user a delivery is owed to is either already attempted or
\* still in the loop, so all are attempted when the run ends; and no
\* exception leaves the job.
C24_DeliveryFailureDoesNotStopRun ==
    /\ ~job.raised
    /\ job.failed \subseteq job.attempted
    /\ ~job.query_failed =>
           job.users = job.attempted
                           \cup ({job.queue[i] : i \in DOMAIN job.queue} \cap job.users)
    /\ (job.pc = "idle" /\ ~job.query_failed) => job.attempted = job.users

\* a scan has ended in which the delivery to the first user raised and the
\* second user was served
C24_Witness ==
    /\ job.pc = "idle"
    /\ job.kind = "check_topics_for_review"
    /\ job.failed = {1}
    /\ job.attempted = {1, 2}
    /\ job.users = {1, 2}

\* C28: right after a completion has written the row of a (user, topic),
\* and as long as fewer than INITIAL_INTERVAL_DAYS days have passed since,
\* the topic is not among the user's topics for review and no run of the
\* due-topic scan selects it.
C28_NotDueBeforeInterval ==
    \A p \in Pairs :
        (/\ metrics[p] # None
         /\ metrics[p].last_studied_at # None
         /\ now < metrics[p].last_studied_at[1] + INITIAL_INTERVAL_DAYS * TicksPerDay)
            => /\ p[2] \notin due_topic_ids(p[1], now)
               /\ last.op = "get_topics_for_review" => p[2] \notin last.result
               /\ last.op = "check_topics_for_review" => p \notin job.due

\* the config of user u asks for a reminder in the half hour t
ReminderOwed(u, t) ==
    /\ configs[u] # None
    /\ configs[u].is_enabled
    /\ configs[u].preferred_time = HourMinute(t)
    /\ day_listed(configs[u], DayOfWeek(t))

\* C29: when a half hour begins that is the preferred_time of a user's
\* enabled ScheduleConfig, on a day the config lists, then within that half
\* hour a study reminder is sent to the user (or the user has changed the
\* config meanwhile).
C29_EnabledUserIsReminded ==
    \A u \in SchedUsers, t \in 0..(WeekSlots - 1) :
        (now = t /\ job.kind = "none" /\ ReminderOwed(u, t))
            ~> (now = t /\ (u \in job.attempted \/ ~ReminderOwed(u, t)))

\* C26: a sync replaces the topics of a repository whether or not metrics
\* or session rows refer to them: its delete fails only when the storage
\* does, and once the old topics are deleted the metrics rows keyed by
\* their ids are still there, refer to no existing topic, and their topic
\* ids are returned by the due-topic query once next_review_at has passed.
C26_SyncLeavesProgressOrphaned ==
    /\ (sync.pc = "failed" /\ sync.failed_in = "delete_by_repository")
           => sync.storage_fault
    /\ sync.pc \in {"create", "update", "done"} =>
           \A p \in DOMAIN metrics :
               (metrics[p] # None /\ p[2] \in {t.id : t \in sync.pre})
                   => /\ ~TopicExists(p[2])
                      /\ sql_le(metrics[p].next_review_at, <<now>>)
                             => p[2] \in due_topic_ids(p[1], now)

\* the handlers whose evaluate_answer on assessment a returned, and those
\* that called complete_session
EvaluatorsOf(a) == {h \in DOMAIN procs : procs[h].evaluated /\ procs[h].aid = a}
Completers == {h \in DOMAIN procs : procs[h].completed}

\* C30: in a quiz conversation no assessment is evaluated twice, an
\* assessment is evaluated only after those created before it, and
\* complete_session is called at most once and only when every assessment
\* has been evaluated; this with answer messages handled concurrently and
\* with evaluations that fail and are sent again.
C30_EachAnswerEvaluatedOnce ==
    /\ \A a \in DOMAIN assessments : Cardinality(EvaluatorsOf(a)) <= 1
    /\ \A a \in DOMAIN assessments :
           (EvaluatorsOf(a) # {} /\ a > 1) => EvaluatorsOf(a - 1) # {}
    /\ Cardinality(Completers) <= 1
    /\ Completers # {} => \A a \in DOMAIN assessments : EvaluatorsOf(a) # {}

====
